---------------------------- MODULE Spec2Model ----------------------------
(***************************************************************************)
(* A model of the jaguar CAN control stack: the differential-drive         *)
(* controller and odometry estimator (diff_drive.cc), the framing codec,   *)
(* dispatch core and completion tokens of the serial bridge                *)
(* (jaguar_bridge.h), and the flashing tool's handshake (unbrick.cc).      *)
(*                                                                         *)
(* Every subsystem has its own variables and its own specification; a      *)
(* specification leaves the variables of the other subsystems unchanged.   *)
(*                                                                         *)
(* Real numbers are held as integers in fixed units:                       *)
(*   length   half a wheel circumference (pi * wheel_radius_m)             *)
(*   angle    a quarter turn (pi / 2)                                      *)
(*   encoder  raw s16.16 (1/65536 revolution); as a double: revolutions    *)
(* The settings modelled are those of a robot whose radius is twice its    *)
(* wheel radius, so that one revolution of wheel difference turns the      *)
(* robot by exactly a quarter turn and cos/sin are exact.                  *)
(***************************************************************************)
EXTENDS Integers, Sequences, FiniteSets, TLC

VARIABLES
    \* ---- DiffDriveRobot: wheel odometry (diff_drive.cc) ----
    odom_curr_left_, odom_last_left_, odom_curr_right_, odom_last_right_,
    velocity_left_, velocity_right_,
    odom_state_,
    x_, y_, theta_,
    odom_signal_,       \* calls of the odometry observer, newest last
    cerr_,              \* number of "periodic update message was dropped" warnings
    fusion_,            \* the locals of the latest fusion (revs_left, revs_right, ...)
    odom_hist_,         \* history: callbacks so far, sides holding an unfused sample,
                        \* what the latest callback did
    \* ---- DiffDriveRobot: speed commands (diff_drive.cc) ----
    current_rpm_left_, current_rpm_right_,
    target_rpm_left_, target_rpm_right_,
    accel_max_,
    speed_set_,         \* the setpoints of the latest speed_set commands <<left, right>>
    ramp_hist_,         \* history: operations so far; per wheel the residual when the
                        \* target was last set; the drpm_max spent since; the latest tick
    \* ---- DiffDriveRobot: construction (diff_drive.cc) ----
    ctor_step_,         \* index of the configuration step the constructor is at
    ctor_phase_,        \* "issue": evaluating block's arguments; "block_t1", "block_t2"
    ctor_outcome_,      \* "running", "constructed", "exception"
    jag_token_,         \* per wheel, the token of the step's command
    jag_ack_,           \* per wheel, the acknowledgement on the bus
    can_tx_,            \* history: the commands sent, <<step, wheel>>
    can_acked_,         \* history: the commands acknowledged, <<step, wheel>>
    \* ---- JaguarBridge: dispatch core and tokens (jaguar_bridge.h) ----
    tokens_,            \* token_table: identifier -> handle of its token, 0 for no entry
    token_objs_,        \* the JaguarToken objects created, by handle
    callbacks_,         \* callback_table: identifier -> callbacks attached, in order
    cb_log_,            \* history: the callback invocations, <<callback, message,
                        \* position of the message among those decoded>>
    decoded_,           \* history: the messages decoded by the receive path, in order
    bridge_err_,        \* number of registrations refused as contract violations
    wait_,              \* the latest wait on a token: handle, result, payload returned
    \* ---- unbrick: main (unbrick.cc) ----
    main_pc_,           \* where main is
    main_hist_,         \* history: the ping token's handle, pings sent, waits timed out
    \* ---- JaguarBridge: the framing codec (jaguar_bridge.h) ----
    serial_,            \* the bytes written to the serial line and not yet received
    state_,             \* ReceiveState of the frame in progress
    length_,            \* the logical bytes the frame in progress announces
    escape_,            \* the previous byte was kESC
    packet_,            \* the logical bytes of the frame in progress
    unpacked_,          \* history: the messages recv_byte returned since the last write
    frame_hist_,        \* history: the latest write: its fault, the dropped and the
                        \* expected message
    \* ---- NTCANBridge (ntcan_bridge.cc) under a tool's main ----
    nt_log_,            \* history: the calls of send and recv: the driver's result
                        \* and how the call ended
    nt_driver_,         \* number of canWrite and canRead calls made
    tool_exit_,         \* "running", then how main returned: "return 0", "return 1"
    tool_cerr_,         \* what the tool reported on std::cerr
    \* ---- unbrick: main from the ping to the last chunk (unbrick.cc) ----
    fl_pc_,             \* where main is
    fl_fw_,             \* fw: the firmware image
    fl_i_,              \* number of bytes of fw the BOOST_FOREACH has visited
    fl_data_,           \* data: the chunk being filled
    fl_tokens_,         \* reply identifier -> "none", "pending" or "done"
    fl_inflight_,       \* reply identifier -> replies the bootloader owes
    fl_log_             \* history: tokens registered, commands sent, replies
                        \* received, waits returned, in order

odomVars == <<odom_curr_left_, odom_last_left_, odom_curr_right_, odom_last_right_,
              velocity_left_, velocity_right_, odom_state_, x_, y_, theta_,
              odom_signal_, cerr_, fusion_, odom_hist_>>

rampVars == <<current_rpm_left_, current_rpm_right_, target_rpm_left_,
              target_rpm_right_, accel_max_, speed_set_, ramp_hist_>>

ctorVars == <<ctor_step_, ctor_phase_, ctor_outcome_, jag_token_, jag_ack_,
              can_tx_, can_acked_>>

bridgeVars == <<tokens_, token_objs_, callbacks_, cb_log_, decoded_, bridge_err_, wait_>>

mainVars == <<main_pc_, main_hist_>>

frameVars == <<serial_, state_, length_, escape_, packet_, unpacked_, frame_hist_>>

ntVars == <<nt_log_, nt_driver_, tool_exit_, tool_cerr_>>

flashVars == <<fl_pc_, fl_fw_, fl_i_, fl_data_, fl_tokens_, fl_inflight_, fl_log_>>

vars == <<odomVars, rampVars, ctorVars, bridgeVars, mainVars, frameVars, ntVars,
          flashVars>>

-----------------------------------------------------------------------------
(* Helpers *)

Abs(n) == IF n < 0 THEN -n ELSE n

\* diff_drive.cc:13-18
sgn(n) == IF n > 0 THEN 1 ELSE IF n < 0 THEN -1 ELSE 0

-----------------------------------------------------------------------------
(* Settings (DiffDriveSettings) and fixed-point helpers *)

\* 2 * M_PI * wheel_radius_m, in half circumferences
wheel_circum_ == 2

\* robot_radius_m = 2 * wheel_radius_m, in half circumferences per quarter turn
robot_radius_ == 1

\* one revolution in raw s16.16
S16P16One == 65536

\* the s16.16 value of a double: revolutions (the samples fed are whole revolutions)
s16p16_to_double(raw) == raw \div S16P16One

\* bounds of the integer part of an s16.16
S16Min == -32768
S16Max == 32767

\* cos and sin of an angle given in quarter turns
cos(q) == CASE q % 4 = 0 -> 1 [] q % 4 = 1 -> 0 [] q % 4 = 2 -> -1 [] OTHER -> 0
sin(q) == CASE q % 4 = 0 -> 0 [] q % 4 = 1 -> 1 [] q % 4 = 2 -> 0 [] OTHER -> -1

\* an angle left as it is
normalize_angle_Identity(q) == q

\* angles::normalize_angle: the equivalent angle in (-pi, pi], in quarter turns
normalize_angle(q) == IF q % 4 > 2 THEN (q % 4) - 4 ELSE q % 4

-----------------------------------------------------------------------------
(* Wheel odometry: DiffDriveRobot::odom_update *)

\* number of encoder callbacks explored
MaxCallbacks == 4

\* values of enum Side; "indeterminate" is any other bit pattern
Side == {"kNone", "kLeft", "kRight"}
Wheels == {"kLeft", "kRight"}
OtherSide(side) == IF side = "kLeft" THEN "kRight" ELSE "kLeft"

\* encoder positions fed, raw s16.16: both ends of the range, and small values
SamplePositions == {S16Min * S16P16One, 0, 1 * S16P16One, S16Max * S16P16One}

\* wheel velocities fed
SampleVelocities == {-2, 2}

\* The constructor's initializer list and odom_init: positions and pose are
\* zeroed, the velocities are zeroed; odom_state_ is assigned nowhere, so its
\* first read yields an indeterminate value.
OdomInit ==
    /\ odom_curr_left_ = 0 /\ odom_curr_right_ = 0
    /\ odom_last_left_ = 0 /\ odom_last_right_ = 0
    /\ x_ = 0 /\ y_ = 0 /\ theta_ = 0
    /\ velocity_left_ = 0 /\ velocity_right_ = 0
    /\ odom_state_ \in Side \cup {"indeterminate"}
    /\ odom_signal_ = [calls |-> 0, last |-> <<0, 0, 0, 0, 0>>]
    /\ cerr_ = 0
    /\ fusion_ = [revs_left |-> 0, revs_right |-> 0, meters |-> 0, radians |-> 0]
    /\ odom_hist_ = [n |-> 0, fresh |-> {}, side |-> "kNone", did |-> "none",
                     alt |-> TRUE, sum_left |-> 0, sum_right |-> 0]

\* OdomBranch with the comparison of the second test inverted
OdomBranch_SameSideFuses(state, side) ==
    IF state = "kNone" THEN "set"
    ELSE IF state = side THEN "fuse"
    ELSE "drop"

\* the branch odom_update takes: record the side, fuse, or warn
OdomBranch(state, side) ==
    IF state = "kNone" THEN "set"
    ELSE IF state # side THEN "fuse"
    ELSE "drop"

\* a difference taken from 0 instead of the last update
OdomDelta_FromZero(curr, last) == s16p16_to_double(curr)

\* revs_left / revs_right: the difference of the last two updates, in revolutions
OdomDelta(curr, last) == s16p16_to_double(curr) - s16p16_to_double(last)

odom_update(side, new_pos, velocity) ==
    LET \* last_pos = curr_pos; curr_pos = new_pos (references to the side's pair)
        ocl == IF side = "kLeft" THEN new_pos ELSE odom_curr_left_
        oll == IF side = "kLeft" THEN odom_curr_left_ ELSE odom_last_left_
        ocr == IF side = "kRight" THEN new_pos ELSE odom_curr_right_
        olr == IF side = "kRight" THEN odom_curr_right_ ELSE odom_last_right_
        vl  == IF side = "kLeft" THEN velocity ELSE velocity_left_
        vr  == IF side = "kRight" THEN velocity ELSE velocity_right_
        branch == OdomBranch(odom_state_, side)
        \* history: the callbacks so far came from the two sides in turn
        alt == odom_hist_.alt /\ side # odom_hist_.side
        revs_left  == OdomDelta(ocl, oll)
        revs_right == OdomDelta(ocr, olr)
        meters_left  == revs_left * wheel_circum_
        meters_right == revs_right * wheel_circum_
        meters  == (meters_left + meters_right) \div 2
        radians == (meters_left - meters_right) \div (2 * robot_radius_)
        nx == x_ + meters * cos(theta_)
        ny == y_ + meters * sin(theta_)
        nt == normalize_angle(theta_ + radians)
        v_linear == (vr + vl) \div 2
        omega    == (vr - vl) \div (2 * robot_radius_)
    IN  /\ odom_hist_.n < MaxCallbacks
        /\ UNCHANGED <<rampVars, ctorVars, bridgeVars, mainVars, frameVars, ntVars, flashVars>>
        /\ odom_curr_left_' = ocl /\ odom_last_left_' = oll
        /\ odom_curr_right_' = ocr /\ odom_last_right_' = olr
        /\ velocity_left_' = vl /\ velocity_right_' = vr
        /\ CASE branch = "set" ->
                  /\ odom_state_' = side
                  /\ UNCHANGED <<x_, y_, theta_, odom_signal_, cerr_, fusion_>>
             [] branch = "fuse" ->
                  /\ odom_state_' = "kNone"
                  /\ x_' = nx /\ y_' = ny /\ theta_' = nt
                  /\ odom_signal_' = [calls |-> odom_signal_.calls + 1,
                                      last |-> <<nx, ny, nt, v_linear, omega>>]
                  /\ fusion_' = [revs_left |-> revs_left, revs_right |-> revs_right,
                                 meters |-> meters, radians |-> radians]
                  /\ UNCHANGED cerr_
             [] OTHER ->
                  /\ cerr_' = cerr_ + 1
                  /\ UNCHANGED <<odom_state_, x_, y_, theta_, odom_signal_, fusion_>>
        /\ odom_hist_' = [n |-> odom_hist_.n + 1,
                          fresh |-> IF branch = "fuse" THEN {}
                                    ELSE odom_hist_.fresh \cup {side},
                          side |-> side,
                          did |-> branch,
                          alt |-> alt,
                          sum_left |-> IF ~alt THEN 0
                                       ELSE IF branch = "fuse"
                                            THEN odom_hist_.sum_left + revs_left
                                            ELSE odom_hist_.sum_left,
                          sum_right |-> IF ~alt THEN 0
                                        ELSE IF branch = "fuse"
                                             THEN odom_hist_.sum_right + revs_right
                                             ELSE odom_hist_.sum_right]

\* the receive thread delivers a periodic odometry message of the left Jaguar
OdomLeft ==
    \E new_pos \in SamplePositions, velocity \in SampleVelocities :
        odom_update("kLeft", new_pos, velocity)

\* the receive thread delivers a periodic odometry message of the right Jaguar
OdomRight ==
    \E new_pos \in SamplePositions, velocity \in SampleVelocities :
        odom_update("kRight", new_pos, velocity)

OdomNext == OdomLeft \/ OdomRight

-----------------------------------------------------------------------------
(* Speed commands: DiffDriveRobot::drive, drive_raw, drive_spin *)

\* number of drive / drive_raw / drive_spin calls explored
MaxRampOps == 5

\* linear velocities (half circumferences per second) and angular velocities
\* (quarter turns per second) commanded
DriveSpeeds == {-1, 0, 1}
DriveOmegas == {-1, 0, 1}

\* periods passed to drive_spin
SpinPeriods == {0, 1, 2}

\* settings.accel_max_mps2
AccelSettings == {0, 1, 2}

\* the constructor's initializer list
RampInit ==
    /\ current_rpm_left_ = 0 /\ current_rpm_right_ = 0
    /\ target_rpm_left_ = 0 /\ target_rpm_right_ = 0
    /\ accel_max_ \in AccelSettings
    /\ speed_set_ = <<0, 0>>
    /\ ramp_hist_ = [n |-> 0, res0_left |-> 0, res0_right |-> 0, spent |-> 0,
                     ticks |-> 0, did |-> "none", dt |-> 0, drpm_max |-> 0]

drive_raw(v_left, v_right) ==
    LET tl == (v_left * 60) \div wheel_circum_
        tr == (v_right * 60) \div wheel_circum_
    IN  /\ ramp_hist_.n < MaxRampOps
        /\ UNCHANGED <<odomVars, ctorVars, bridgeVars, mainVars, frameVars, ntVars, flashVars>>
        /\ target_rpm_left_' = tl
        /\ target_rpm_right_' = tr
        /\ UNCHANGED <<current_rpm_left_, current_rpm_right_, accel_max_, speed_set_>>
        /\ ramp_hist_' = [n |-> ramp_hist_.n + 1,
                          res0_left |-> tl - current_rpm_left_,
                          res0_right |-> tr - current_rpm_right_,
                          spent |-> 0, ticks |-> 0, did |-> "drive", dt |-> 0,
                          drpm_max |-> 0]

\* drive with the two wheels exchanged
drive_Swapped(v, omega) ==
    drive_raw(v + robot_radius_ * omega, v - robot_radius_ * omega)

drive(v, omega) ==
    LET v_left  == v - robot_radius_ * omega
        v_right == v + robot_radius_ * omega
    IN  drive_raw(v_left, v_right)

\* drive_spin with no cap: the commanded speed jumps to the target
RampStep_NoCap(current_rpm, target_rpm, drpm_max) == target_rpm

\* drive_spin that always steps by drpm_max, however small the residual
RampStep_Overshoot(current_rpm, target_rpm, drpm_max) ==
    current_rpm + sgn(target_rpm - current_rpm) * drpm_max

\* one wheel of drive_spin: the commanded speed after the tick
RampStep(current_rpm, target_rpm, drpm_max) ==
    LET residual_rpm == target_rpm - current_rpm
    IN  IF Abs(residual_rpm) <= drpm_max THEN target_rpm
        ELSE current_rpm + sgn(residual_rpm) * drpm_max

\* the tick: cap the acceleration, then send both setpoints and wait for both
\* acknowledgements (the wait is that of block, modelled with the constructor)
drive_spin(dt) ==
    LET drpm_max == (accel_max_ * dt * 60) \div wheel_circum_
        cl == RampStep(current_rpm_left_, target_rpm_left_, drpm_max)
        cr == RampStep(current_rpm_right_, target_rpm_right_, drpm_max)
    IN  /\ ramp_hist_.n < MaxRampOps
        /\ UNCHANGED <<odomVars, ctorVars, bridgeVars, mainVars, frameVars, ntVars, flashVars>>
        /\ current_rpm_left_' = cl
        /\ current_rpm_right_' = cr
        /\ speed_set_' = <<cl, cr>>
        /\ UNCHANGED <<target_rpm_left_, target_rpm_right_, accel_max_>>
        /\ ramp_hist_' = [ramp_hist_ EXCEPT !.n = @ + 1, !.spent = @ + drpm_max,
                                            !.ticks = @ + 1, !.did = "spin",
                                            !.dt = dt, !.drpm_max = drpm_max]

Drive == \E v \in DriveSpeeds, omega \in DriveOmegas : drive(v, omega)

DriveRaw == \E v_left \in DriveSpeeds, v_right \in DriveSpeeds : drive_raw(v_left, v_right)

DriveSpin == \E dt \in SpinPeriods : drive_spin(dt)

RampNext == Drive \/ DriveRaw \/ DriveSpin

-----------------------------------------------------------------------------
(* Construction: DiffDriveRobot::DiffDriveRobot, speed_init, odom_init,
   diag_init, block *)

\* the command/ack round trips of the constructor, in program order
CtorSteps == <<"config_brake_set",          \* constructor
               "speed_set_reference",       \* speed_init
               "speed_enable",
               "position_set_reference",    \* odom_init
               "periodic_config_odom",
               "periodic_enable_odom",
               "periodic_config_diag",      \* diag_init
               "periodic_enable_diag">>

\* the constructor is entered; nothing has been sent
CtorInit ==
    /\ ctor_step_ = 1
    /\ ctor_phase_ = "issue"
    /\ ctor_outcome_ = "running"
    /\ jag_token_ = [w \in Wheels |-> "none"]
    /\ jag_ack_ = [w \in Wheels |-> "idle"]
    /\ can_tx_ = {}
    /\ can_acked_ = {}

\* the constructor is over
CtorIdle ==
    /\ ctor_step_ = Len(CtorSteps) + 1
    /\ ctor_phase_ = "issue"
    /\ ctor_outcome_ = "constructed"
    /\ jag_token_ = [w \in Wheels |-> "none"]
    /\ jag_ack_ = [w \in Wheels |-> "idle"]
    /\ can_tx_ = {}
    /\ can_acked_ = {}

\* the phase once both arguments of block have been evaluated
CtorAfterIssue(tokens) ==
    IF \A w \in Wheels : tokens[w] # "none" THEN "block_t1" ELSE "issue"

\* An argument of block(...) is evaluated: the Jaguar registers the token of
\* the acknowledgement and sends the command of the step. The two arguments
\* are evaluated in either order.
CtorIssue(w) ==
    /\ ctor_outcome_ = "running"
    /\ ctor_step_ <= Len(CtorSteps)
    /\ ctor_phase_ = "issue"
    /\ jag_token_[w] = "none"
    /\ jag_token_' = [jag_token_ EXCEPT ![w] = "pending"]
    /\ jag_ack_' = [jag_ack_ EXCEPT ![w] = "inflight"]
    /\ can_tx_' = can_tx_ \cup {<<ctor_step_, w>>}
    /\ ctor_phase_' = CtorAfterIssue(jag_token_')
    /\ UNCHANGED <<ctor_step_, ctor_outcome_, can_acked_>>
    /\ UNCHANGED <<odomVars, rampVars, bridgeVars, mainVars, frameVars, ntVars, flashVars>>

\* The send of a command throws (a transport fault): the exception leaves the
\* constructor, which catches nothing.
CtorSendFault(w) ==
    /\ ctor_outcome_ = "running"
    /\ ctor_step_ <= Len(CtorSteps)
    /\ ctor_phase_ = "issue"
    /\ jag_token_[w] = "none"
    /\ jag_token_' = [jag_token_ EXCEPT ![w] = "pending"]
    /\ ctor_outcome_' = "exception"
    /\ UNCHANGED <<ctor_step_, ctor_phase_, jag_ack_, can_tx_, can_acked_>>
    /\ UNCHANGED <<odomVars, rampVars, bridgeVars, mainVars, frameVars, ntVars, flashVars>>

\* block that waits for its first token only
BlockAfter_FirstOnly(phase) == "proceed"

\* DiffDriveRobot::block: t1->block(); t2->block(). Where the constructor is
\* once the wait of the given phase returns.
BlockAfter(phase) == IF phase = "block_t1" THEN "block_t2" ELSE "proceed"

\* the token a phase of block waits for: t1 is the left Jaguar's, t2 the right's
BlockToken(phase) == IF phase = "block_t1" THEN "kLeft" ELSE "kRight"

\* A wait of block returns: the token is done. After the second wait the
\* constructor goes on to the next step.
CtorBlock ==
    /\ ctor_outcome_ = "running"
    /\ ctor_phase_ \in {"block_t1", "block_t2"}
    /\ jag_token_[BlockToken(ctor_phase_)] = "done"
    /\ IF BlockAfter(ctor_phase_) = "proceed"
       THEN /\ ctor_step_' = ctor_step_ + 1
            /\ ctor_phase_' = "issue"
            /\ jag_token_' = [w \in Wheels |-> "none"]
       ELSE /\ ctor_phase_' = BlockAfter(ctor_phase_)
            /\ UNCHANGED <<ctor_step_, jag_token_>>
    /\ UNCHANGED <<ctor_outcome_, jag_ack_, can_tx_, can_acked_>>
    /\ UNCHANGED <<odomVars, rampVars, bridgeVars, mainVars, frameVars, ntVars, flashVars>>

\* jag_broadcast_.system_resume(): sent once the last step is through; no reply
\* is waited for, and the constructor returns.
CtorResume ==
    /\ ctor_outcome_ = "running"
    /\ ctor_step_ = Len(CtorSteps) + 1
    /\ ctor_phase_ = "issue"
    /\ can_tx_' = can_tx_ \cup {<<ctor_step_, "broadcast">>}
    /\ ctor_outcome_' = "constructed"
    /\ UNCHANGED <<ctor_step_, ctor_phase_, jag_token_, jag_ack_, can_acked_>>
    /\ UNCHANGED <<odomVars, rampVars, bridgeVars, mainVars, frameVars, ntVars, flashVars>>

\* The Jaguar acknowledges the command: the receive thread fulfils the token.
JaguarAck(w) ==
    /\ jag_ack_[w] = "inflight"
    /\ jag_ack_' = [jag_ack_ EXCEPT ![w] = "idle"]
    /\ jag_token_' = [jag_token_ EXCEPT ![w] = "done"]
    /\ can_acked_' = can_acked_ \cup {<<ctor_step_, w>>}
    /\ UNCHANGED <<ctor_step_, ctor_phase_, ctor_outcome_, can_tx_>>
    /\ UNCHANGED <<odomVars, rampVars, bridgeVars, mainVars, frameVars, ntVars, flashVars>>

\* The command or its acknowledgement is lost on the bus: no acknowledgement
\* will arrive.
JaguarSilent(w) ==
    /\ jag_ack_[w] = "inflight"
    /\ jag_ack_' = [jag_ack_ EXCEPT ![w] = "lost"]
    /\ UNCHANGED <<ctor_step_, ctor_phase_, ctor_outcome_, jag_token_, can_tx_, can_acked_>>
    /\ UNCHANGED <<odomVars, rampVars, bridgeVars, mainVars, frameVars, ntVars, flashVars>>

CtorNext ==
    \/ \E w \in Wheels : CtorIssue(w)
    \/ \E w \in Wheels : CtorSendFault(w)
    \/ CtorBlock
    \/ CtorResume
    \/ \E w \in Wheels : JaguarAck(w)
    \/ \E w \in Wheels : JaguarSilent(w)

-----------------------------------------------------------------------------
(* Dispatch core and completion tokens: JaguarBridge, JaguarToken *)

\* tokens created, messages decoded and callbacks attached that are explored
MaxTokens == 2
MaxMessages == 2
MaxCallbacksAttached == 2
MaxRefusals == 1

\* message identifiers: upd_id(kPing) and upd_id(kAck) of the bootloader
PingId == 1
AckId == 2
Ids == {PingId, AckId}

\* payloads; a token's buffer holds "empty" until a message fills it
Payloads == {10, 11}
Messages == [id : Ids, payload : Payloads]

\* the callbacks that may be attached
CallbackNames == {"cb_a", "cb_b"}

\* a JaguarToken as constructed: not done, nothing in its buffer
NewToken(id) ==
    [id |-> id, done_ |-> FALSE, buffer_ |-> "empty", consumed |-> FALSE,
     since |-> Len(decoded_)]

BridgeInit ==
    /\ tokens_ = [id \in Ids |-> 0]
    /\ token_objs_ = <<>>
    /\ callbacks_ = [id \in Ids |-> <<>>]
    /\ cb_log_ = <<>>
    /\ decoded_ = <<>>
    /\ bridge_err_ = 0
    /\ wait_ = [token |-> 0, result |-> "none", payload |-> "empty"]

\* a registration that replaces the entry of an identifier that has one
RegisterToken_Overwrites(id) ==
    /\ Len(token_objs_) < MaxTokens
    /\ token_objs_' = Append(token_objs_, NewToken(id))
    /\ tokens_' = [tokens_ EXCEPT ![id] = Len(token_objs_) + 1]
    /\ UNCHANGED bridge_err_

\* JaguarBridge::recv(id): registers the token of the next message with the
\* identifier. While the identifier has an entry the registration is refused
\* and reported; table and tokens stay as they are.
RegisterToken(id) ==
    /\ IF tokens_[id] # 0
       THEN /\ bridge_err_ < MaxRefusals
            /\ bridge_err_' = bridge_err_ + 1
            /\ UNCHANGED <<tokens_, token_objs_>>
       ELSE /\ Len(token_objs_) < MaxTokens
            /\ token_objs_' = Append(token_objs_, NewToken(id))
            /\ tokens_' = [tokens_ EXCEPT ![id] = Len(token_objs_) + 1]
            /\ UNCHANGED bridge_err_

\* the table once the token of handle h has been collected by its waiter
Collected(h) == [id \in Ids |-> IF tokens_[id] = h THEN 0 ELSE tokens_[id]]

\* JaguarToken::block: returns once the token is done, with the payload; the
\* token is then consumed and its entry leaves the table.
TokenBlock(h) ==
    /\ token_objs_[h].done_
    /\ ~token_objs_[h].consumed
    /\ wait_' = [token |-> h, result |-> "done", payload |-> token_objs_[h].buffer_]
    /\ token_objs_' = [token_objs_ EXCEPT ![h].consumed = TRUE]
    /\ tokens_' = Collected(h)

\* a bounded wait that gives its token up when the time is over
TokenTimedBlock_Abandons(h) ==
    /\ ~token_objs_[h].consumed
    /\ IF token_objs_[h].done_
       THEN TokenBlock(h)
       ELSE /\ wait_' = [token |-> h, result |-> "timeout", payload |-> "empty"]
            /\ tokens_' = Collected(h)
            /\ UNCHANGED token_objs_

\* JaguarToken::timed_block: as block when the token is done within the time;
\* otherwise it reports the timeout and leaves the token as it is.
TokenTimedBlock(h) ==
    /\ ~token_objs_[h].consumed
    /\ IF token_objs_[h].done_
       THEN TokenBlock(h)
       ELSE /\ wait_' = [token |-> h, result |-> "timeout", payload |-> "empty"]
            /\ UNCHANGED <<tokens_, token_objs_>>

\* JaguarBridge::attach_callback(id, cb): appended to the identifier's list
AttachCallback(id, cb) ==
    /\ callbacks_' = [callbacks_ EXCEPT ![id] = Append(@, cb)]

\* a dispatch that calls the latest subscriber first
Dispatch_Reversed(subscribers, msg) ==
    [i \in 1 .. Len(subscribers) |->
        <<subscribers[Len(subscribers) + 1 - i], msg, Len(decoded_) + 1>>]

\* the callback invocations recv_message makes for a message: every callback
\* attached to its identifier, in the order they were attached
Dispatch(subscribers, msg) ==
    [i \in 1 .. Len(subscribers) |-> <<subscribers[i], msg, Len(decoded_) + 1>>]

\* JaguarToken::unblock(message): the payload is copied and the token is done
Unblock(token, msg) == [token EXCEPT !.buffer_ = msg.payload, !.done_ = TRUE]

\* JaguarBridge::recv_message(msg), run by the receive thread for every
\* message decoded: fulfils the token of the identifier, if there is one, and
\* calls every callback attached to the identifier.
recv_message(msg) ==
    /\ Len(decoded_) < MaxMessages
    /\ decoded_' = Append(decoded_, msg)
    /\ token_objs_' = IF tokens_[msg.id] # 0
                      THEN [token_objs_ EXCEPT ![tokens_[msg.id]] = Unblock(@, msg)]
                      ELSE token_objs_
    /\ cb_log_' = cb_log_ \o Dispatch(callbacks_[msg.id], msg)
    /\ UNCHANGED <<tokens_, callbacks_, bridge_err_, wait_>>

-----------------------------------------------------------------------------
(* The users of the bridge: the receive thread, a caller, and unbrick's main *)

\* pings sent by unbrick that are explored
MaxPings == 2

\* the tokens a caller other than main holds
CallerTokens == (1 .. Len(token_objs_)) \ {main_hist_.ping_token, main_hist_.ack}

\* the receive thread decodes a message and dispatches it
ReceiveMessage ==
    /\ \E msg \in Messages : recv_message(msg)
    /\ UNCHANGED <<odomVars, rampVars, ctorVars, mainVars, frameVars, ntVars, flashVars>>

\* a caller registers a token
CallerRecv ==
    /\ \E id \in Ids : RegisterToken(id)
    /\ UNCHANGED <<callbacks_, cb_log_, decoded_, wait_>>
    /\ UNCHANGED <<odomVars, rampVars, ctorVars, mainVars, frameVars, ntVars, flashVars>>

\* a caller's block() returns
CallerBlock ==
    /\ \E h \in CallerTokens : TokenBlock(h)
    /\ UNCHANGED <<callbacks_, cb_log_, decoded_, bridge_err_>>
    /\ UNCHANGED <<odomVars, rampVars, ctorVars, mainVars, frameVars, ntVars, flashVars>>

\* a caller's timed_block() returns
CallerTimedBlock ==
    /\ \E h \in CallerTokens : TokenTimedBlock(h)
    /\ UNCHANGED <<callbacks_, cb_log_, decoded_, bridge_err_>>
    /\ UNCHANGED <<odomVars, rampVars, ctorVars, mainVars, frameVars, ntVars, flashVars>>

\* how many callbacks are attached
NumAttached == Len(callbacks_[PingId]) + Len(callbacks_[AckId])

\* a caller attaches a callback
CallerAttach ==
    /\ NumAttached < MaxCallbacksAttached
    /\ \E id \in Ids, cb \in CallbackNames : AttachCallback(id, cb)
    /\ UNCHANGED <<tokens_, token_objs_, cb_log_, decoded_, bridge_err_, wait_>>
    /\ UNCHANGED <<odomVars, rampVars, ctorVars, mainVars, frameVars, ntVars, flashVars>>

\* main is about to attach its spy; no ping token yet
MainInit ==
    /\ main_pc_ = "attach_spy"
    /\ main_hist_ = [ping_token |-> 0, ack |-> 0, pings |-> 0, timeouts |-> 0,
                     sent |-> <<>>]

\* main is not running
MainIdle ==
    /\ main_pc_ = "idle"
    /\ main_hist_ = [ping_token |-> 0, ack |-> 0, pings |-> 0, timeouts |-> 0,
                     sent |-> <<>>]

\* can.attach_callback(0, 0, ...): the spy, attached for every identifier
MainAttachSpy ==
    /\ main_pc_ = "attach_spy"
    /\ callbacks_' = [id \in Ids |-> Append(callbacks_[id], "spy")]
    /\ main_pc_' = "recv_ping"
    /\ UNCHANGED <<tokens_, token_objs_, cb_log_, decoded_, bridge_err_, wait_, main_hist_>>
    /\ UNCHANGED <<odomVars, rampVars, ctorVars, frameVars, ntVars, flashVars>>

\* ping_token = bl.recv(kPing): registered once, before the loop
MainRecvPing ==
    /\ main_pc_ = "recv_ping"
    /\ RegisterToken(PingId)
    /\ IF tokens_[PingId] # 0
       THEN /\ main_pc_' = "aborted"
            /\ UNCHANGED main_hist_
       ELSE /\ main_pc_' = "send_ping"
            /\ main_hist_' = [main_hist_ EXCEPT !.ping_token = Len(token_objs_) + 1]
    /\ UNCHANGED <<callbacks_, cb_log_, decoded_, wait_>>
    /\ UNCHANGED <<odomVars, rampVars, ctorVars, frameVars, ntVars, flashVars>>

\* the body of the loop: bl.send(kPing)
MainSendPing ==
    /\ main_pc_ = "send_ping"
    /\ main_hist_.pings < MaxPings
    /\ main_hist_' = [main_hist_ EXCEPT !.pings = @ + 1, !.sent = Append(@, "kPing")]
    /\ main_pc_' = "timed_block"
    /\ UNCHANGED <<bridgeVars, odomVars, rampVars, ctorVars, frameVars, ntVars, flashVars>>

\* a loop that goes on while the wait succeeds
PingLoopAfterWait_Inverted(result) ==
    IF result = "done" THEN "send_ping" ELSE "prepare"

\* while (!ping_token->timed_block(50 ms)): where main goes after the wait
PingLoopAfterWait(result) ==
    IF result = "done" THEN "prepare" ELSE "send_ping"

\* the condition of the loop: the bounded wait on the ping token
MainTimedBlock ==
    /\ main_pc_ = "timed_block"
    /\ TokenTimedBlock(main_hist_.ping_token)
    /\ main_pc_' = PingLoopAfterWait(wait_'.result)
    /\ main_hist_' = [main_hist_ EXCEPT
                         !.timeouts = IF wait_'.result = "timeout" THEN @ + 1 ELSE @]
    /\ UNCHANGED <<callbacks_, cb_log_, decoded_, bridge_err_>>
    /\ UNCHANGED <<odomVars, rampVars, ctorVars, frameVars, ntVars, flashVars>>

\* ack = bl.prepare(fw_start, fw.size()): send_ack registers the token of the
\* acknowledgement, then sends the download command
MainPrepare ==
    /\ main_pc_ = "prepare"
    /\ RegisterToken(AckId)
    /\ IF tokens_[AckId] # 0
       THEN /\ main_pc_' = "aborted"
            /\ UNCHANGED main_hist_
       ELSE /\ main_pc_' = "block_ack"
            /\ main_hist_' = [main_hist_ EXCEPT !.ack = Len(token_objs_) + 1,
                                                !.sent = Append(@, "kDownload")]
    /\ UNCHANGED <<callbacks_, cb_log_, decoded_, wait_>>
    /\ UNCHANGED <<odomVars, rampVars, ctorVars, frameVars, ntVars, flashVars>>

\* ack->block() after prepare
MainBlockAck ==
    /\ main_pc_ = "block_ack"
    /\ TokenBlock(main_hist_.ack)
    /\ main_pc_' = "send_data"
    /\ UNCHANGED main_hist_
    /\ UNCHANGED <<callbacks_, cb_log_, decoded_, bridge_err_>>
    /\ UNCHANGED <<odomVars, rampVars, ctorVars, frameVars, ntVars, flashVars>>

TokensNext ==
    \/ ReceiveMessage
    \/ CallerRecv
    \/ CallerBlock
    \/ CallerTimedBlock

SubscribersNext ==
    \/ ReceiveMessage
    \/ CallerAttach
    \/ CallerRecv

UnbrickNext ==
    \/ ReceiveMessage
    \/ MainAttachSpy
    \/ MainRecvPing
    \/ MainSendPing
    \/ MainTimedBlock
    \/ MainPrepare
    \/ MainBlockAck

-----------------------------------------------------------------------------
(* JaguarBridge: the framing codec *)

\* the reserved bytes and their substitutes
kSOF == 255
kESC == 254
kSOFESC == 254
kESCESC == 253

\* a frame announces the 4 identifier bytes and 0 to 8 payload bytes
kMinLength == 4
kMaxLength == 12

\* the longest payload enumerated exhaustively
MaxPayloadLen == 3

\* payload bytes: an ordinary one, both substitutes, both reserved bytes
PayloadBytes == {7, kESCESC, kESC, kSOF}

\* 29-bit identifiers with ordinary and reserved bytes in them
FrameIds == {0, 1280 + kESC, 520093696 + 65536 * kSOF + 256 * kESC + kSOF}

\* sequences over S of length at most n
RECURSIVE SeqsUpTo(_, _)
SeqsUpTo(S, n) ==
    IF n = 0 THEN {<<>>}
    ELSE LET shorter == SeqsUpTo(S, n - 1)
         IN  shorter \cup {Append(q, b) : q \in shorter, b \in S}

\* full 8-byte payloads
LongPayloads ==
    { <<7, 7, 7, 7, 7, 7, 7, 7>>,
      <<kSOF, kESC, kSOF, kESC, kSOF, kESC, kSOF, kESC>>,
      <<kESC, kESC, kESC, kESC, kESCESC, kSOF, kSOF, kSOF>> }

FramePayloads == SeqsUpTo(PayloadBytes, MaxPayloadLen) \cup LongPayloads

FrameMessages == [id : FrameIds, payload : FramePayloads]

\* the frames that follow a corrupted one
FollowUps ==
    { [id |-> 0, payload |-> <<>>],
      [id |-> 1280 + kESC, payload |-> <<kSOF, 7, kESC>>],
      [id |-> 520093696 + 65536 * kSOF + 256 * kESC + kSOF,
       payload |-> <<7, 7, 7, 7, 7, 7, 7, 7>>] }

\* the identifier followed by the payload, the identifier's low byte first
pack_packet(msg) ==
    << msg.id % 256, (msg.id \div 256) % 256, (msg.id \div 65536) % 256,
       (msg.id \div 16777216) % 256 >> \o msg.payload

\* the first 4 bytes are the identifier, the rest the payload
unpack_packet(packet) ==
    [ id |-> packet[1] + 256 * packet[2] + 65536 * packet[3] + 16777216 * packet[4],
      payload |-> SubSeq(packet, 5, Len(packet)) ]

\* an escaping that leaves kESC as it is
EscapeByte_SofOnly(byte) ==
    IF byte = kSOF THEN <<kESC, kSOFESC>> ELSE <<byte>>

\* a reserved byte becomes kESC and its substitute
EscapeByte(byte) ==
    IF byte = kSOF THEN <<kESC, kSOFESC>>
    ELSE IF byte = kESC THEN <<kESC, kESCESC>>
    ELSE <<byte>>

RECURSIVE encode_bytes(_)
encode_bytes(bytes) ==
    IF bytes = <<>> THEN <<>>
    ELSE EscapeByte(Head(bytes)) \o encode_bytes(Tail(bytes))

\* kSOF, the count of logical bytes, the escaped identifier and payload
encode(msg) ==
    <<kSOF, Len(pack_packet(msg))>> \o encode_bytes(pack_packet(msg))

\* an un-escaping that takes any byte after kESC as it comes
Unescape_Lenient(byte) ==
    IF byte = kSOFESC THEN kSOF ELSE IF byte = kESCESC THEN kESC ELSE byte

\* the literal byte a substitute stands for, -1 for any other byte
Unescape(byte) ==
    IF byte = kSOFESC THEN kSOF ELSE IF byte = kESCESC THEN kESC ELSE -1

FrameInit ==
    /\ serial_ = <<>>
    /\ state_ = "kWaiting"
    /\ length_ = 0
    /\ escape_ = FALSE
    /\ packet_ = <<>>
    /\ unpacked_ = <<>>
    /\ frame_hist_ = [fault |-> "none", dropped |-> <<>>, expected |-> <<>>]

\* the decoder takes the logical byte; the frame is complete when the
\* announced count is reached
PushByte(byte) ==
    IF Len(packet_) + 1 >= length_
    THEN /\ state_' = "kWaiting"
         /\ packet_' = <<>>
         /\ unpacked_' = Append(unpacked_, unpack_packet(Append(packet_, byte)))
    ELSE /\ state_' = "kPayload"
         /\ packet_' = Append(packet_, byte)
         /\ UNCHANGED unpacked_

\* a synchronisation fault: the frame in progress is discarded
DropFrame ==
    /\ state_' = "kWaiting"
    /\ packet_' = <<>>
    /\ escape_' = FALSE
    /\ UNCHANGED <<length_, unpacked_>>

\* the state machine takes one byte
recv_byte(byte) ==
    CASE state_ = "kWaiting" ->
            IF byte = kSOF
            THEN /\ state_' = "kLength"
                 /\ packet_' = <<>>
                 /\ escape_' = FALSE
                 /\ UNCHANGED <<length_, unpacked_>>
            ELSE UNCHANGED <<state_, length_, escape_, packet_, unpacked_>>
      [] state_ = "kLength" ->
            IF kMinLength <= byte /\ byte <= kMaxLength
            THEN /\ state_' = "kPayload"
                 /\ length_' = byte
                 /\ UNCHANGED <<escape_, packet_, unpacked_>>
            ELSE DropFrame
      [] state_ = "kPayload" /\ escape_ ->
            IF Unescape(byte) = -1
            THEN DropFrame
            ELSE /\ escape_' = FALSE
                 /\ PushByte(Unescape(byte))
                 /\ UNCHANGED length_
      [] state_ = "kPayload" /\ ~escape_ ->
            IF byte = kESC
            THEN /\ escape_' = TRUE
                 /\ UNCHANGED <<state_, length_, packet_, unpacked_>>
            ELSE /\ PushByte(byte)
                 /\ UNCHANGED <<length_, escape_>>

\* the receive path takes the next byte off the line
RecvHandle ==
    /\ serial_ # <<>>
    /\ recv_byte(Head(serial_))
    /\ serial_' = Tail(serial_)
    /\ UNCHANGED frame_hist_
    /\ UNCHANGED <<odomVars, rampVars, ctorVars, bridgeVars, mainVars, ntVars, flashVars>>

\* send writes the frame of a message to the line, once
SerialSend ==
    /\ serial_ = <<>> /\ frame_hist_.expected = <<>>
    /\ \E msg \in FrameMessages :
        /\ serial_' = encode(msg)
        /\ frame_hist_' = [fault |-> "none", dropped |-> <<>>, expected |-> <<msg>>]
    /\ unpacked_' = <<>>
    /\ UNCHANGED <<state_, length_, escape_, packet_>>
    /\ UNCHANGED <<odomVars, rampVars, ctorVars, bridgeVars, mainVars, ntVars, flashVars>>

\* the positions of the frame that hold the substitute of an escape
RECURSIVE EscapePositions(_, _)
EscapePositions(bytes, from) ==
    IF bytes = <<>> THEN {}
    ELSE (IF Len(EscapeByte(Head(bytes))) = 2 THEN {from + 1} ELSE {})
         \cup EscapePositions(Tail(bytes), from + Len(EscapeByte(Head(bytes))))

\* bytes that are no substitute
BadSubstitutes == {0, 7, kSOF}

\* bytes that are no length
BadLengths == {0, kMinLength - 1, kMaxLength + 1, kESC, kSOF}

\* the line garbles one byte of a frame: the substitute of an escape becomes
\* a byte that is none, or the length an impossible one; the next frame
\* follows intact
SerialSendCorrupted ==
    /\ serial_ = <<>> /\ frame_hist_.expected = <<>>
    /\ \E msg \in FrameMessages, next \in FollowUps :
        \E fault \in {"escape", "length"} :
            \E k \in (IF fault = "length" THEN {2}
                      ELSE EscapePositions(pack_packet(msg), 3)) :
                \E b \in (IF fault = "length" THEN BadLengths ELSE BadSubstitutes) :
                    /\ serial_' = [encode(msg) EXCEPT ![k] = b] \o encode(next)
                    /\ frame_hist_' = [fault |-> fault, dropped |-> <<msg>>,
                                       expected |-> <<next>>]
    /\ unpacked_' = <<>>
    /\ UNCHANGED <<state_, length_, escape_, packet_>>
    /\ UNCHANGED <<odomVars, rampVars, ctorVars, bridgeVars, mainVars, ntVars, flashVars>>

FrameNext == SerialSend \/ SerialSendCorrupted \/ RecvHandle

-----------------------------------------------------------------------------
(* NTCANBridge::send, NTCANBridge::recv, and the catch of a tool's main *)

\* number of send / recv calls explored
MaxDriverCalls == 4

\* results of canWrite / canRead; the last two stand for every code that no
\* case of the switches names
NtResults ==
    { "NTCAN_SUCCESS", "NTCAN_CONTR_OFF_BUS", "NTCAN_CONTR_WARN", "NTCAN_TX_ERROR",
      "NTCAN_TX_TIMEOUT", "NTCAN_RX_TIMEOUT", "NTCAN_RX_ERROR",
      "NTCAN_INSUFFICIENT_RESOURCES" }

\* a send that takes the error-frame warning for a success
SendOutcome_IgnoresWarn(result) ==
    CASE result \in {"NTCAN_SUCCESS", "NTCAN_CONTR_WARN"} -> "returned"
      [] result = "NTCAN_CONTR_OFF_BUS" ->
            "CANException: Too many CAN error frames have been received."
      [] result \in {"NTCAN_TX_ERROR", "NTCAN_TX_TIMEOUT"} ->
            "CANException: Transmission timeout exceeded."
      [] OTHER -> "CANException: An unknown error has occurred."

\* the switch of NTCANBridge::send on the result of canWrite
SendOutcome(result) ==
    CASE result = "NTCAN_SUCCESS" -> "returned"
      [] result \in {"NTCAN_CONTR_OFF_BUS", "NTCAN_CONTR_WARN"} ->
            "CANException: Too many CAN error frames have been received."
      [] result \in {"NTCAN_TX_ERROR", "NTCAN_TX_TIMEOUT"} ->
            "CANException: Transmission timeout exceeded."
      [] OTHER -> "CANException: An unknown error has occurred."

\* the switch of NTCANBridge::recv on the result of canRead
RecvOutcome(result) ==
    CASE result = "NTCAN_SUCCESS" -> "returned"
      [] result = "NTCAN_RX_TIMEOUT" -> "CANException: Receive timeout exceeded."
      [] OTHER -> "CANException: An unknown error has occurred."

\* a tool's main has opened the bridge and entered its try block
NtInit ==
    /\ nt_log_ = <<>>
    /\ nt_driver_ = 0
    /\ tool_exit_ = "running"
    /\ tool_cerr_ = <<>>

\* no tool is running on this bridge
NtIdle ==
    /\ nt_log_ = <<>>
    /\ nt_driver_ = 0
    /\ tool_exit_ = "idle"
    /\ tool_cerr_ = <<>>

\* A call made inside the try block of main ends. A CANException leaves the
\* try block: the handler prints e.code() and e.what() and main returns 1.
\* CANException(std::string) leaves m_code unset, so the code printed is
\* indeterminate.
ToolCall(op, result, outcome) ==
    /\ tool_exit_ = "running"
    /\ Len(nt_log_) < MaxDriverCalls
    /\ nt_driver_' = nt_driver_ + 1
    /\ nt_log_' = Append(nt_log_, [op |-> op, result |-> result, outcome |-> outcome])
    /\ IF outcome = "returned"
       THEN UNCHANGED <<tool_exit_, tool_cerr_>>
       ELSE /\ tool_exit_' = "return 1"
            /\ tool_cerr_' = <<"error", "indeterminate", outcome>>
    /\ UNCHANGED <<odomVars, rampVars, ctorVars, bridgeVars, mainVars, frameVars, flashVars>>

\* NTCANBridge::send: one canWrite, then the switch on its result
NtSend == \E result \in NtResults : ToolCall("send", result, SendOutcome(result))

\* NTCANBridge::recv: one canRead, then the switch on its result
NtRecv == \E result \in NtResults : ToolCall("recv", result, RecvOutcome(result))

\* main reaches the end of its try block and returns 0
ToolReturn ==
    /\ tool_exit_ = "running"
    /\ tool_exit_' = "return 0"
    /\ UNCHANGED <<nt_log_, nt_driver_, tool_cerr_>>
    /\ UNCHANGED <<odomVars, rampVars, ctorVars, bridgeVars, mainVars, frameVars, flashVars>>

TransportNext == NtSend \/ NtRecv \/ ToolReturn

-----------------------------------------------------------------------------
(* unbrick: main from the ping token to "Programming complete" *)

\* the longest firmware image, in bytes
MaxFirmware == 17

\* the size at which data is sent: data.size() == 8
kChunkSize == 8

\* the reply identifiers main registers tokens for
FlashReplyIds == {"kPing", "kAck"}

\* the reply a command is acknowledged with
FlashReplyOf(api) == IF api = "kPing" THEN "kPing" ELSE "kAck"

\* firmware images: byte k of an image is k
FlashImages == {[k \in 1 .. n |-> k] : n \in 0 .. MaxFirmware}

FlashEvent(ev, id, data) == [ev |-> ev, id |-> id, data |-> data]

FlashInit ==
    /\ fl_pc_ = "recv_ping"
    /\ fl_fw_ \in FlashImages
    /\ fl_i_ = 0
    /\ fl_data_ = <<>>
    /\ fl_tokens_ = [id \in FlashReplyIds |-> "none"]
    /\ fl_inflight_ = [id \in FlashReplyIds |-> 0]
    /\ fl_log_ = <<>>

\* main is not running
FlashIdle ==
    /\ fl_pc_ = "idle"
    /\ fl_fw_ = <<>>
    /\ fl_i_ = 0
    /\ fl_data_ = <<>>
    /\ fl_tokens_ = [id \in FlashReplyIds |-> "none"]
    /\ fl_inflight_ = [id \in FlashReplyIds |-> 0]
    /\ fl_log_ = <<>>

\* number of commands of the kind sent so far
FlashSent(api) ==
    Cardinality({k \in 1 .. Len(fl_log_) : fl_log_[k].ev = "send" /\ fl_log_[k].id = api})

\* a send_ack that sends before it registers the token
SendAckEvents_SendFirst(api, data) ==
    << FlashEvent("send", api, data), FlashEvent("recv", "kAck", <<>>) >>

\* JaguarBootloader::send_ack: tp = recv(ack_api); send(api, data); return tp
SendAckEvents(api, data) ==
    << FlashEvent("recv", "kAck", <<>>), FlashEvent("send", api, data) >>

\* send_ack went through: the token is pending and the bootloader owes a reply
FlashSendAck(api, data) ==
    /\ fl_log_' = fl_log_ \o SendAckEvents(api, data)
    /\ fl_tokens_' = [fl_tokens_ EXCEPT !["kAck"] = "pending"]
    /\ fl_inflight_' = [fl_inflight_ EXCEPT !["kAck"] = @ + 1]

\* can_.send threw a CANException after the token was registered: main's
\* handler returns 1
FlashSendAckFault ==
    /\ fl_log_' = Append(fl_log_, FlashEvent("recv", "kAck", <<>>))
    /\ fl_tokens_' = [fl_tokens_ EXCEPT !["kAck"] = "pending"]
    /\ fl_pc_' = "return 1"
    /\ UNCHANGED fl_inflight_

\* ping_token = bl.recv(kPing)
FlashRecvPing ==
    /\ fl_pc_ = "recv_ping"
    /\ fl_log_' = Append(fl_log_, FlashEvent("recv", "kPing", <<>>))
    /\ fl_tokens_' = [fl_tokens_ EXCEPT !["kPing"] = "pending"]
    /\ fl_pc_' = "send_ping"
    /\ UNCHANGED <<fl_fw_, fl_i_, fl_data_, fl_inflight_>>
    /\ UNCHANGED <<odomVars, rampVars, ctorVars, bridgeVars, mainVars, frameVars, ntVars>>

\* the body of the do loop: bl.send(kPing)
FlashSendPing ==
    /\ fl_pc_ = "send_ping"
    /\ FlashSent("kPing") < MaxPings
    /\ \/ /\ fl_log_' = Append(fl_log_, FlashEvent("send", "kPing", <<>>))
          /\ fl_inflight_' = [fl_inflight_ EXCEPT !["kPing"] = @ + 1]
          /\ fl_pc_' = "wait_ping"
       \/ /\ fl_pc_' = "return 1"
          /\ UNCHANGED <<fl_log_, fl_inflight_>>
    /\ UNCHANGED <<fl_fw_, fl_i_, fl_data_, fl_tokens_>>
    /\ UNCHANGED <<odomVars, rampVars, ctorVars, bridgeVars, mainVars, frameVars, ntVars>>

\* while (!ping_token->timed_block(50 ms)): the wait returns true once the
\* reply is in, and false when the 50 ms pass without it
FlashTimedBlock ==
    /\ fl_pc_ = "wait_ping"
    /\ LET result == IF fl_tokens_["kPing"] = "done" THEN "done" ELSE "timeout"
       IN  /\ fl_log_' = Append(fl_log_, FlashEvent("wait", "kPing", result))
           /\ fl_pc_' = PingLoopAfterWait(result)
           /\ fl_tokens_' = IF result = "done"
                            THEN [fl_tokens_ EXCEPT !["kPing"] = "none"]
                            ELSE fl_tokens_
    /\ UNCHANGED <<fl_fw_, fl_i_, fl_data_, fl_inflight_>>
    /\ UNCHANGED <<odomVars, rampVars, ctorVars, bridgeVars, mainVars, frameVars, ntVars>>

\* ack = bl.prepare(fw_start, fw.size()). The karma generator writes through
\* obuf.end() of an empty vector: the program may stop there; when it goes on,
\* obuf is still empty and the command carries no payload.
FlashPrepare ==
    /\ fl_pc_ = "prepare"
    /\ \/ /\ FlashSendAck("kDownload", <<>>)
          /\ fl_pc_' = "block_prepare"
       \/ FlashSendAckFault
       \/ /\ fl_pc_' = "crashed"
          /\ UNCHANGED <<fl_log_, fl_tokens_, fl_inflight_>>
    /\ UNCHANGED <<fl_fw_, fl_i_, fl_data_>>
    /\ UNCHANGED <<odomVars, rampVars, ctorVars, bridgeVars, mainVars, frameVars, ntVars>>

\* data that holds 9 bytes before it is sent
ChunkFull_Nine(data) == Len(data) = kChunkSize + 1

\* if (data.size() == 8)
ChunkFull(data) == Len(data) = kChunkSize

\* send_data: assert(data.size() <= 8 && data.size() > 0), then send_ack
FlashSendData(next_pc) ==
    IF Len(fl_data_) <= 8 /\ Len(fl_data_) > 0
    THEN \/ /\ FlashSendAck("kSendData", fl_data_)
            /\ fl_pc_' = next_pc
         \/ FlashSendAckFault
    ELSE /\ fl_pc_' = "assert failed"
         /\ UNCHANGED <<fl_log_, fl_tokens_, fl_inflight_>>

\* ack->block() returns: the acknowledgement is in
FlashBlockReturns ==
    /\ fl_tokens_["kAck"] = "done"
    /\ fl_log_' = Append(fl_log_, FlashEvent("wait", "kAck", "done"))
    /\ fl_tokens_' = [fl_tokens_ EXCEPT !["kAck"] = "none"]

\* ack->block() after prepare
FlashBlockPrepare ==
    /\ fl_pc_ = "block_prepare"
    /\ FlashBlockReturns
    /\ fl_pc_' = "foreach"
    /\ UNCHANGED <<fl_fw_, fl_i_, fl_data_, fl_inflight_>>
    /\ UNCHANGED <<odomVars, rampVars, ctorVars, bridgeVars, mainVars, frameVars, ntVars>>

\* an iteration of BOOST_FOREACH that finds data full: send it
FlashLoopSend ==
    /\ fl_pc_ = "foreach"
    /\ fl_i_ < Len(fl_fw_)
    /\ ChunkFull(fl_data_)
    /\ FlashSendData("block_chunk")
    /\ UNCHANGED <<fl_fw_, fl_i_, fl_data_>>
    /\ UNCHANGED <<odomVars, rampVars, ctorVars, bridgeVars, mainVars, frameVars, ntVars>>

\* ack->block() inside the loop, then data.clear() and data.push_back(byte)
FlashBlockChunk ==
    /\ fl_pc_ = "block_chunk"
    /\ FlashBlockReturns
    /\ fl_data_' = <<fl_fw_[fl_i_ + 1]>>
    /\ fl_i_' = fl_i_ + 1
    /\ fl_pc_' = "foreach"
    /\ UNCHANGED <<fl_fw_, fl_inflight_>>
    /\ UNCHANGED <<odomVars, rampVars, ctorVars, bridgeVars, mainVars, frameVars, ntVars>>

\* an iteration of BOOST_FOREACH that finds data not full: data.push_back(byte)
FlashLoopPush ==
    /\ fl_pc_ = "foreach"
    /\ fl_i_ < Len(fl_fw_)
    /\ ~ChunkFull(fl_data_)
    /\ fl_data_' = Append(fl_data_, fl_fw_[fl_i_ + 1])
    /\ fl_i_' = fl_i_ + 1
    /\ UNCHANGED <<fl_pc_, fl_fw_, fl_tokens_, fl_inflight_, fl_log_>>
    /\ UNCHANGED <<odomVars, rampVars, ctorVars, bridgeVars, mainVars, frameVars, ntVars>>

\* after the loop: if (!data.empty()) send the rest, else "Programming complete"
FlashLoopEnd ==
    /\ fl_pc_ = "foreach"
    /\ fl_i_ = Len(fl_fw_)
    /\ IF fl_data_ # <<>>
       THEN FlashSendData("block_final")
       ELSE /\ fl_pc_' = "return 0"
            /\ UNCHANGED <<fl_log_, fl_tokens_, fl_inflight_>>
    /\ UNCHANGED <<fl_fw_, fl_i_, fl_data_>>
    /\ UNCHANGED <<odomVars, rampVars, ctorVars, bridgeVars, mainVars, frameVars, ntVars>>

\* ack->block() after the last chunk, then "Programming complete"
FlashBlockFinal ==
    /\ fl_pc_ = "block_final"
    /\ FlashBlockReturns
    /\ fl_pc_' = "return 0"
    /\ UNCHANGED <<fl_fw_, fl_i_, fl_data_, fl_inflight_>>
    /\ UNCHANGED <<odomVars, rampVars, ctorVars, bridgeVars, mainVars, frameVars, ntVars>>

\* The receive thread decodes a reply of the bootloader: a registered token is
\* fulfilled, a reply nobody waits for is dropped.
BootReply(id) ==
    /\ fl_inflight_[id] > 0
    /\ fl_inflight_' = [fl_inflight_ EXCEPT ![id] = @ - 1]
    /\ fl_log_' = Append(fl_log_, FlashEvent("reply", id, <<>>))
    /\ fl_tokens_' = IF fl_tokens_[id] = "none" THEN fl_tokens_
                     ELSE [fl_tokens_ EXCEPT ![id] = "done"]
    /\ UNCHANGED <<fl_pc_, fl_fw_, fl_i_, fl_data_>>
    /\ UNCHANGED <<odomVars, rampVars, ctorVars, bridgeVars, mainVars, frameVars, ntVars>>

\* the command or its reply is lost
BootSilent(id) ==
    /\ fl_inflight_[id] > 0
    /\ fl_inflight_' = [fl_inflight_ EXCEPT ![id] = @ - 1]
    /\ UNCHANGED <<fl_pc_, fl_fw_, fl_i_, fl_data_, fl_tokens_, fl_log_>>
    /\ UNCHANGED <<odomVars, rampVars, ctorVars, bridgeVars, mainVars, frameVars, ntVars>>

FlashNext ==
    \/ FlashRecvPing
    \/ FlashSendPing
    \/ FlashTimedBlock
    \/ FlashPrepare
    \/ FlashBlockPrepare
    \/ FlashLoopSend
    \/ FlashBlockChunk
    \/ FlashLoopPush
    \/ FlashLoopEnd
    \/ FlashBlockFinal
    \/ \E id \in FlashReplyIds : BootReply(id)
    \/ \E id \in FlashReplyIds : BootSilent(id)

-----------------------------------------------------------------------------
(* Specifications *)

\* the odometry, with the speed commands at rest
InitOdom ==
    /\ OdomInit
    /\ RampInit /\ accel_max_ = 1
    /\ CtorIdle
    /\ BridgeInit /\ MainIdle
    /\ FrameInit
    /\ FlashIdle
    /\ NtIdle

SpecOdom == InitOdom /\ [][OdomNext]_vars

\* the speed commands, with no encoder callback running
InitRamp ==
    /\ RampInit
    /\ OdomInit /\ odom_state_ = "kNone"
    /\ CtorIdle
    /\ BridgeInit /\ MainIdle
    /\ FrameInit
    /\ FlashIdle
    /\ NtIdle

SpecRamp == InitRamp /\ [][RampNext]_vars

\* the constructor, before any speed command or encoder callback
InitCtor ==
    /\ CtorInit
    /\ OdomInit /\ odom_state_ = "kNone"
    /\ RampInit /\ accel_max_ = 1
    /\ BridgeInit /\ MainIdle
    /\ FrameInit
    /\ FlashIdle
    /\ NtIdle

SpecCtor == InitCtor /\ [][CtorNext]_vars

\* the bridge with its receive thread and a caller, main not running
InitBridge ==
    /\ BridgeInit /\ MainIdle
    /\ CtorIdle
    /\ OdomInit /\ odom_state_ = "kNone"
    /\ RampInit /\ accel_max_ = 1
    /\ FrameInit
    /\ FlashIdle
    /\ NtIdle

\* the caller registers tokens and waits on them
SpecTokens == InitBridge /\ [][TokensNext]_vars

\* the caller attaches callbacks and registers tokens
SpecSubscribers == InitBridge /\ [][SubscribersNext]_vars

\* unbrick's main with the bridge's receive thread
InitUnbrick ==
    /\ BridgeInit /\ MainInit
    /\ CtorIdle
    /\ OdomInit /\ odom_state_ = "kNone"
    /\ RampInit /\ accel_max_ = 1
    /\ FrameInit
    /\ FlashIdle
    /\ NtIdle

SpecUnbrick == InitUnbrick /\ [][UnbrickNext]_vars

\* the serial line and the decoder, nothing else running
InitFrame ==
    /\ FrameInit
    /\ FlashIdle
    /\ NtIdle
    /\ BridgeInit /\ MainIdle
    /\ CtorIdle
    /\ OdomInit /\ odom_state_ = "kNone"
    /\ RampInit /\ accel_max_ = 1

SpecFrame == InitFrame /\ [][FrameNext]_vars

\* a tool on the NTCAN bridge, nothing else running
InitTransport ==
    /\ NtInit
    /\ FrameInit
    /\ FlashIdle
    /\ BridgeInit /\ MainIdle
    /\ CtorIdle
    /\ OdomInit /\ odom_state_ = "kNone"
    /\ RampInit /\ accel_max_ = 1

SpecTransport == InitTransport /\ [][TransportNext]_vars

\* unbrick's main flashing an image, nothing else running
InitFlash ==
    /\ FlashInit
    /\ NtIdle
    /\ FrameInit
    /\ BridgeInit /\ MainIdle
    /\ CtorIdle
    /\ OdomInit /\ odom_state_ = "kNone"
    /\ RampInit /\ accel_max_ = 1

SpecFlash == InitFlash /\ [][FlashNext]_vars

-----------------------------------------------------------------------------
(* Claims on the odometry fusion *)

\* the step is an encoder callback
OdomCallbackStep == odom_hist_'.n = odom_hist_.n + 1

\* the callback of the step completes a pair: the other side holds an unfused sample
OdomCompletesPair == OtherSide(odom_hist_'.side) \in odom_hist_.fresh

\* the callback of the step is for a side that already holds an unfused sample,
\* while the other side holds none
OdomSameSideAgain ==
    /\ odom_hist_'.side \in odom_hist_.fresh
    /\ OtherSide(odom_hist_'.side) \notin odom_hist_.fresh

OdomPose == <<x_, y_, theta_>>

\* the step moves the current sample of the callback's side to its last sample
OdomShiftsPair ==
    IF odom_hist_'.side = "kLeft" THEN odom_last_left_' = odom_curr_left_
    ELSE odom_last_right_' = odom_curr_right_

(* C1: the pose is recomputed and the observer is invoked by a callback if and
   only if that callback completes a pair of fresh left and right samples; a
   callback that completes no pair leaves the pose alone. *)
C1_FusionOnlyOnCompletedPair ==
    [][OdomCallbackStep =>
         /\ (odom_signal_'.calls = odom_signal_.calls + 1) <=> OdomCompletesPair
         /\ (odom_signal_'.calls = odom_signal_.calls) => (OdomPose' = OdomPose)
         /\ odom_signal_'.calls \in {odom_signal_.calls, odom_signal_.calls + 1}]_vars

(* C2 as stated: a sample for a side that already holds an unfused one raises a
   warning, resets the side-tracking state, skips the fusion and lets the
   callback return. *)
C2_DropResetsState ==
    [][(OdomCallbackStep /\ OdomSameSideAgain) =>
         /\ cerr_' = cerr_ + 1
         /\ odom_state_' = "kNone"
         /\ OdomPose' = OdomPose
         /\ odom_signal_' = odom_signal_]_vars

(* C2 amended: a sample for a side that already holds an unfused one raises a
   warning and supersedes the pending sample, which stays only as the side's
   last sample; the side-tracking state is left as it is (the side stays
   recorded as pending), the fusion is skipped (pose unchanged, observer not
   called) and the callback returns. *)
C2_DropKeepsState ==
    [][(OdomCallbackStep /\ OdomSameSideAgain) =>
         /\ cerr_' = cerr_ + 1
         /\ odom_state_ = odom_hist_'.side
         /\ odom_state_' = odom_state_
         /\ OdomPose' = OdomPose
         /\ odom_signal_' = odom_signal_
         /\ OdomShiftsPair
         /\ odom_hist_'.did = "drop"]_vars

\* a second sample of one side was dropped while that side was pending
C2_Witness ==
    /\ odom_hist_.did = "drop"
    /\ odom_hist_.n >= 2
    /\ odom_hist_.fresh = {odom_hist_.side}
    /\ odom_state_ = odom_hist_.side
    /\ cerr_ >= 1

\* half of the range of the revolution counter
S16HalfRange == (S16Max - S16Min + 1) \div 2

(* C3: the per-wheel delta of a fusion is the wrap-corrected one: a raw delta
   of more than half the representable range never reaches the pose. *)
C3_DeltaWrapCorrected ==
    /\ Abs(fusion_.revs_left) <= S16HalfRange
    /\ Abs(fusion_.revs_right) <= S16HalfRange

-----------------------------------------------------------------------------
(* Claims on the acceleration ramp *)

Max(a, b) == IF a >= b THEN a ELSE b

\* the step is a control tick with dt > 0 and accel_max > 0
RampTickStep ==
    /\ ramp_hist_'.n = ramp_hist_.n + 1
    /\ ramp_hist_'.did = "spin"
    /\ ramp_hist_'.dt > 0
    /\ accel_max_ > 0

\* the bound the claim names: accel_max * dt * 60 / wheel circumference
RampClaimedBound == (accel_max_ * ramp_hist_'.dt * 60) \div wheel_circum_

\* one wheel over a tick: the change is at most the bound, and a residual above
\* the bound is reduced by exactly the bound, toward the target
RampWheelCapped(current_rpm, target_rpm, next_rpm, bound) ==
    /\ Abs(next_rpm - current_rpm) <= bound
    /\ Abs(target_rpm - current_rpm) > bound =>
           /\ next_rpm = current_rpm + sgn(target_rpm - current_rpm) * bound
           /\ next_rpm # target_rpm

\* one wheel since its target was set: what is left of the initial residual
\* once the bounds of the ticks so far are spent
RampWheelResidual(current_rpm, target_rpm, res0) ==
    target_rpm - current_rpm = sgn(res0) * Max(0, Abs(res0) - ramp_hist_.spent)

\* one wheel, all ticks since the target was set having the same bound d > 0:
\* the target is reached exactly when ticks * d >= |initial residual|
RampWheelArrival(current_rpm, target_rpm, res0) ==
    (ramp_hist_.drpm_max > 0 /\ ramp_hist_.spent = ramp_hist_.ticks * ramp_hist_.drpm_max)
        => ((current_rpm = target_rpm)
               <=> (ramp_hist_.ticks * ramp_hist_.drpm_max >= Abs(res0)))

(* C9: on every tick with dt > 0 and accel_max > 0 each wheel's commanded speed
   changes by at most drpm_max = accel_max*dt*60/wheel_circumference; a residual
   above drpm_max is reduced by exactly drpm_max; with the target held, the
   commanded speed reaches the target when the ticks' bounds add up to the
   initial residual, and not earlier. *)
C9_RampClamped ==
    /\ [][RampTickStep =>
            /\ RampWheelCapped(current_rpm_left_, target_rpm_left_,
                               current_rpm_left_', RampClaimedBound)
            /\ RampWheelCapped(current_rpm_right_, target_rpm_right_,
                               current_rpm_right_', RampClaimedBound)
            /\ speed_set_' = <<current_rpm_left_', current_rpm_right_'>>]_vars
    /\ [](/\ RampWheelResidual(current_rpm_left_, target_rpm_left_, ramp_hist_.res0_left)
          /\ RampWheelResidual(current_rpm_right_, target_rpm_right_, ramp_hist_.res0_right)
          /\ RampWheelArrival(current_rpm_left_, target_rpm_left_, ramp_hist_.res0_left)
          /\ RampWheelArrival(current_rpm_right_, target_rpm_right_, ramp_hist_.res0_right))

\* a step command above the bound, not a multiple of it, has reached its target
\* on the second tick, clamped on the first
C9_Witness ==
    /\ ramp_hist_.did = "spin" /\ ramp_hist_.ticks = 2
    /\ accel_max_ > 0 /\ ramp_hist_.drpm_max > 0
    /\ ramp_hist_.spent = 2 * ramp_hist_.drpm_max
    /\ Abs(ramp_hist_.res0_left) > ramp_hist_.drpm_max
    /\ Abs(ramp_hist_.res0_left) < 2 * ramp_hist_.drpm_max
    /\ current_rpm_left_ = target_rpm_left_

-----------------------------------------------------------------------------
(* Claims on the initialization sequence *)

CtorStepIds == 1 .. Len(CtorSteps)

\* every command sent is one of the configuration steps, to a wheel, or the
\* resume broadcast; once constructed, every step went to both wheels and was
\* acknowledged by both
CtorRoundTrips ==
    /\ \A c \in can_tx_ :
           \/ c[1] \in CtorStepIds /\ c[2] \in Wheels
           \/ c = <<Len(CtorSteps) + 1, "broadcast">>
    /\ can_acked_ \subseteq can_tx_
    /\ ctor_outcome_ = "constructed" =>
           \A k \in CtorStepIds, w \in Wheels : <<k, w>> \in can_acked_

\* a command is sent only when both acknowledgements of every earlier step have
\* arrived; the resume broadcast comes after all of them
CtorStepsInOrder ==
    \A c \in can_tx_ : \A k \in CtorStepIds, w \in Wheels :
        k < c[1] => <<k, w>> \in can_acked_

\* an acknowledgement was lost
CtorAckLost == \E w \in Wheels : jag_ack_[w] = "lost"

\* nothing more can happen
CtorAtRest == ~ENABLED CtorNext

(* C10 as stated: every configuration step is a command/ack round trip for both
   wheels, no step is begun before both acknowledgements of the step before,
   the resume broadcast follows all of them, and a step that is not
   acknowledged ends the initialization with a failure. *)
C10_UnackedStepFails ==
    /\ CtorRoundTrips
    /\ CtorStepsInOrder
    /\ (CtorAckLost /\ CtorAtRest) => ctor_outcome_ = "exception"

(* C10 amended: the round trips and their order as stated; a step that is not
   acknowledged is not reported: the constructor stays in block at that step
   for good, neither constructed nor failed. Only a send that throws leaves the
   constructor with an exception. *)
C10_UnackedStepBlocks ==
    /\ CtorRoundTrips
    /\ CtorStepsInOrder
    /\ \A w \in Wheels : jag_ack_[w] = "lost" =>
           /\ ctor_outcome_ # "constructed"
           /\ ctor_step_ \in CtorStepIds
           /\ <<ctor_step_, w>> \in can_tx_ \ can_acked_
    /\ (CtorAckLost /\ CtorAtRest /\ ctor_outcome_ = "running") =>
           ctor_phase_ \in {"block_t1", "block_t2"}
    /\ ctor_outcome_ = "exception" =>
           \E w \in Wheels : jag_token_[w] = "pending" /\ <<ctor_step_, w>> \notin can_tx_

\* the acknowledgement of a later step was lost and the constructor is stuck
\* in block, the steps before it acknowledged
C10_Witness ==
    /\ CtorAckLost /\ CtorAtRest
    /\ ctor_outcome_ = "running"
    /\ ctor_step_ = Len(CtorSteps)
    /\ ctor_phase_ = "block_t2"
    /\ \A k \in CtorStepIds, w \in Wheels : k < ctor_step_ => <<k, w>> \in can_acked_

-----------------------------------------------------------------------------
(* Claims on the completion tokens and the ping loop *)

\* the positions after `since` of the decoded messages with the identifier
ArrivalsSince(id, since) ==
    {i \in 1 .. Len(decoded_) : i > since /\ decoded_[i].id = id}

\* the greatest element of a non-empty set of numbers
Greatest(S) == CHOOSE i \in S : \A j \in S : j <= i

\* the wait of the step returned the payload of a message with the token's
\* identifier that was delivered after the token was registered
ReturnsDelivered(h) ==
    /\ wait_'.token = h /\ wait_'.result = "done"
    /\ token_objs_[h].done_
    /\ ArrivalsSince(token_objs_[h].id, token_objs_[h].since) # {}
    /\ wait_'.payload =
           decoded_[Greatest(ArrivalsSince(token_objs_[h].id, token_objs_[h].since))].payload

\* the ping token is in the table, not done, its message not yet delivered
PingPending ==
    /\ main_hist_.ping_token # 0
    /\ tokens_[PingId] = main_hist_.ping_token
    /\ ~token_objs_[main_hist_.ping_token].done_
    /\ ArrivalsSince(PingId, token_objs_[main_hist_.ping_token].since) = {}

(* C4: once the message of a registered token is delivered, the wait returns
   with that payload; a bounded wait before the message has arrived reports a
   timeout and leaves the same token registered and pending, so that the next
   bounded wait succeeds once the message is there; the ping loop registers its
   token once, pings again after every timed-out wait and leaves the loop only
   on a wait that succeeded. *)
C4_TokenWaitRetry ==
    /\ [][(main_pc_ = "block_ack" /\ main_pc_' # main_pc_) =>
             ReturnsDelivered(main_hist_.ack)]_vars
    /\ [][(main_pc_ = "timed_block" /\ main_pc_' # main_pc_) =>
             IF PingPending
             THEN /\ wait_'.result = "timeout"
                  /\ main_pc_' = "send_ping"
                  /\ PingPending'
                  /\ token_objs_' = token_objs_
             ELSE /\ ReturnsDelivered(main_hist_.ping_token)
                  /\ main_pc_' = "prepare"]_vars
    /\ [](main_pc_ \in {"prepare", "block_ack", "send_data"} =>
             /\ token_objs_[main_hist_.ping_token].done_
             /\ main_hist_.pings = main_hist_.timeouts + 1)
    /\ [](Cardinality({h \in 1 .. Len(token_objs_) : token_objs_[h].id = PingId}) <= 1)

\* a wait on the ping token timed out, the next one succeeded, and block()
\* returned the acknowledgement of the download command
C4_Witness ==
    /\ main_pc_ = "send_data"
    /\ main_hist_.timeouts >= 1
    /\ main_hist_.pings = main_hist_.timeouts + 1
    /\ wait_.token = main_hist_.ack /\ wait_.result = "done"
    /\ wait_.payload \in Payloads

-----------------------------------------------------------------------------
(* Claims on the token table *)

\* the tokens created and not yet collected
LiveTokens == {h \in 1 .. Len(token_objs_) : ~token_objs_[h].consumed}

(* C5: at most one live token per identifier at any time, the one the table
   holds; a registration for an identifier that has an entry is refused and
   reported, and leaves the table and the tokens as they are. *)
C5_SingleTokenPerId ==
    /\ [](\A h1, h2 \in LiveTokens :
             token_objs_[h1].id = token_objs_[h2].id => h1 = h2)
    /\ [](\A h \in LiveTokens : tokens_[token_objs_[h].id] = h)
    /\ [][Len(token_objs_') > Len(token_objs_) =>
             /\ tokens_[token_objs_'[Len(token_objs_')].id] = 0
             /\ bridge_err_' = bridge_err_]_vars
    /\ [][bridge_err_' # bridge_err_ =>
             /\ bridge_err_' = bridge_err_ + 1
             /\ \E id \in Ids : tokens_[id] # 0
             /\ tokens_' = tokens_ /\ token_objs_' = token_objs_]_vars

\* a second registration was refused while the first token is still pending
C5_Witness ==
    /\ bridge_err_ >= 1
    /\ \E id \in Ids : /\ tokens_[id] # 0
                       /\ ~token_objs_[tokens_[id]].done_
                       /\ tokens_[id] \in LiveTokens

-----------------------------------------------------------------------------
(* Claims on the subscribers *)

\* the invocations the step adds to the log
NewInvocations == SubSeq(cb_log_', Len(cb_log_) + 1, Len(cb_log_'))

\* the step is the dispatch of a decoded message
DispatchStep == Len(decoded_') = Len(decoded_) + 1

(* C6: the dispatch of a decoded message invokes every callback attached to
   its identifier exactly once, with that message, in the order the callbacks
   were attached, whether or not a token of the identifier is fulfilled by it;
   across messages the invocations follow the order of decoding. *)
C6_SubscriberFanOut ==
    /\ [][DispatchStep =>
             LET msg  == decoded_'[Len(decoded_')]
                 subs == callbacks_[msg.id]
             IN  /\ Len(NewInvocations) = Len(subs)
                 /\ \A i \in 1 .. Len(subs) :
                        /\ NewInvocations[i][1] = subs[i]
                        /\ NewInvocations[i][2] = msg
                 /\ cb_log_ = SubSeq(cb_log_', 1, Len(cb_log_))]_vars
    /\ [][~DispatchStep => cb_log_' = cb_log_]_vars
    /\ [](\A i, j \in 1 .. Len(cb_log_) :
             /\ cb_log_[i][3] \in 1 .. Len(decoded_)
             /\ decoded_[cb_log_[i][3]] = cb_log_[i][2]
             /\ i <= j => cb_log_[i][3] <= cb_log_[j][3])

\* one message fulfilled a pending token and went to two callbacks in the
\* order they were attached; the next message followed
C6_Witness ==
    /\ Len(decoded_) = 2
    /\ Len(cb_log_) >= 3
    /\ cb_log_[1][3] = 1 /\ cb_log_[2][3] = 1 /\ cb_log_[3][3] = 2
    /\ cb_log_[1][1] = "cb_b" /\ cb_log_[2][1] = "cb_a"
    /\ callbacks_[decoded_[1].id] = <<"cb_b", "cb_a">>
    /\ \E h \in 1 .. Len(token_objs_) :
           /\ token_objs_[h].done_ /\ token_objs_[h].id = decoded_[1].id
           /\ token_objs_[h].since = 0

-----------------------------------------------------------------------------
(* Claims on the framing codec *)

(* C7: the bytes of encode(m), fed one at a time to the decoder, yield no
   message before the last byte and exactly the message m with it, for every
   29-bit identifier and payload of 0 to 8 bytes enumerated, literal kSOF and
   kESC bytes included; the decoder is then in kWaiting with no escape
   pending. *)
C7_FramingRoundTrip ==
    (frame_hist_.fault = "none" /\ frame_hist_.expected # <<>>) =>
        /\ serial_ # <<>> => unpacked_ = <<>>
        /\ serial_ = <<>> =>
              /\ unpacked_ = frame_hist_.expected
              /\ state_ = "kWaiting"
              /\ ~escape_
        /\ unpack_packet(pack_packet(frame_hist_.expected[1])) = frame_hist_.expected[1]

\* a full frame whose payload holds both reserved bytes went through
C7_Witness ==
    /\ frame_hist_.fault = "none"
    /\ serial_ = <<>>
    /\ unpacked_ = frame_hist_.expected
    /\ Len(unpacked_) = 1
    /\ Len(unpacked_[1].payload) = 8
    /\ \E i, j \in 1 .. 8 : unpacked_[1].payload[i] = kSOF /\ unpacked_[1].payload[j] = kESC
    /\ unpacked_[1].id > 16777216

(* C8: when the substitute of an escape is garbled into a byte that is none,
   or the length byte into an impossible length, the decoder yields nothing
   from the garbled frame, is in kWaiting when the next frame begins, and
   yields exactly the message of that next frame. *)
C8_FramingResync ==
    (frame_hist_.fault \in {"escape", "length"}) =>
        LET next == frame_hist_.expected[1]
        IN  /\ Len(serial_) >= Len(encode(next)) => unpacked_ = <<>>
            /\ Len(serial_) = Len(encode(next)) =>
                  state_ = "kWaiting" /\ ~escape_ /\ packet_ = <<>>
            /\ Len(serial_) > 0 => unpacked_ = <<>>
            /\ serial_ = <<>> =>
                  /\ unpacked_ = <<next>>
                  /\ state_ = "kWaiting"
                  /\ ~escape_

\* a frame with a garbled escape was dropped and the frame after it decoded
C8_Witness ==
    /\ frame_hist_.fault = "escape"
    /\ serial_ = <<>>
    /\ unpacked_ = frame_hist_.expected
    /\ Len(unpacked_) = 1
    /\ unpacked_[1].payload = <<kSOF, 7, kESC>>
    /\ Len(frame_hist_.dropped[1].payload) = 8

-----------------------------------------------------------------------------
(* Claims on the pose integration *)

\* from the constructed robot, a left sample of +1.0 revolution was followed
\* by a right sample of +1.0 revolution
OdomOneRevEach ==
    /\ odom_hist_.n = 2
    /\ odom_hist_.side = "kRight"
    /\ odom_curr_left_ = S16P16One /\ odom_last_left_ = 0
    /\ odom_curr_right_ = S16P16One /\ odom_last_right_ = 0

(* C11: from the origin with heading 0, a left sample then a right sample
   that each advance their wheel by one revolution yield exactly one fusion,
   after which x has advanced by the wheel circumference and y and theta are
   unchanged. *)
C11_PoseAfterOneRevEach ==
    OdomOneRevEach =>
        /\ odom_signal_.calls = 1
        /\ x_ = wheel_circum_
        /\ y_ = 0
        /\ theta_ = 0

-----------------------------------------------------------------------------
(* Claims on the kinematics *)

\* the targets the claim names for drive(v, omega)
DriveTargets(v, omega) ==
    /\ target_rpm_left_' = ((v - robot_radius_ * omega) * 60) \div wheel_circum_
    /\ target_rpm_right_' = ((v + robot_radius_ * omega) * 60) \div wheel_circum_
    /\ omega = 0 => target_rpm_left_' = target_rpm_right_'
    /\ v = 0 =>
          /\ target_rpm_left_' = -target_rpm_right_'
          /\ Abs(target_rpm_right_') = (robot_radius_ * Abs(omega) * 60) \div wheel_circum_
          /\ sgn(target_rpm_right_') = sgn(omega)

(* C12: drive(v, omega) sets the left target to (v - r*omega) * 60 /
   circumference and the right target to (v + r*omega) * 60 / circumference:
   equal targets for omega = 0, and for v = 0 opposite targets of magnitude
   r * |omega| * 60 / circumference, for every v and omega commanded. *)
C12_DriveKinematics ==
    [][\A v \in DriveSpeeds, omega \in DriveOmegas :
          drive(v, omega) => DriveTargets(v, omega)]_vars

\* drive(0, 1) was called: the wheels are to turn against each other
C12_Witness ==
    /\ ramp_hist_.did = "drive"
    /\ target_rpm_left_ = -30
    /\ target_rpm_right_ = 30
    /\ ramp_hist_.res0_left = -30 - current_rpm_left_

-----------------------------------------------------------------------------
(* Claims on the transport faults *)

\* the calls that ended in a CANException
NtThrown == {i \in 1 .. Len(nt_log_) : nt_log_[i].outcome # "returned"}

(* C13: send and recv return normally only when the driver reports success;
   any other result ends the call in a CANException; each call asks the driver
   once, with no retry; an exception ends the tool: it makes no further call
   and returns 1, and it returns 0 only when no call threw. *)
C13_TransportFaultsPropagate ==
    /\ \A i \in 1 .. Len(nt_log_) :
           (nt_log_[i].outcome = "returned") <=> (nt_log_[i].result = "NTCAN_SUCCESS")
    /\ nt_driver_ = Len(nt_log_)
    /\ NtThrown # {} =>
           (NtThrown = {Len(nt_log_)} /\ tool_exit_ = "return 1" /\ tool_cerr_ # <<>>)
    /\ NtThrown = {} => tool_exit_ \in {"running", "return 0"}

\* after calls that went well, a recv met a result no case names, and the tool
\* returned 1
C13_Witness ==
    /\ Len(nt_log_) >= 3
    /\ nt_log_[1].op = "send" /\ nt_log_[1].outcome = "returned"
    /\ nt_log_[Len(nt_log_)].op = "recv"
    /\ nt_log_[Len(nt_log_)].result = "NTCAN_RX_ERROR"
    /\ tool_exit_ = "return 1"

-----------------------------------------------------------------------------
(* Claims on the heading *)

(* C14: after construction and after every odometry callback the heading
   theta_ lies in (-pi, pi], that is above -2 and at most 2 quarter turns,
   whatever angle the fusions have added. *)
C14_HeadingNormalized ==
    -2 < theta_ /\ theta_ <= 2

\* a fusion turned the robot by more than a full turn and left it heading
\* away from 0
C14_Witness ==
    /\ odom_signal_.calls >= 1
    /\ Abs(fusion_.radians) > 4
    /\ odom_hist_.did = "fuse"
    /\ theta_ # 0
    /\ odom_signal_.last[3] = theta_

-----------------------------------------------------------------------------
(* Claims on the flashing handshake *)

\* the positions of the log that hold the event
FlashAt(ev, id) ==
    {k \in 1 .. Len(fl_log_) : fl_log_[k].ev = ev /\ fl_log_[k].id = id}

\* the positions at which a wait on the token returned with the reply
FlashCollected(id) == {k \in FlashAt("wait", id) : fl_log_[k].data = "done"}

\* the positions at which a command was sent
FlashSends == {k \in 1 .. Len(fl_log_) : fl_log_[k].ev = "send"}

\* the positions at which a command answered by an acknowledgement was sent
FlashAckedSends == FlashAt("send", "kDownload") \cup FlashAt("send", "kSendData")

\* before position k a token of the identifier was registered and no wait on
\* it has returned with the reply since
FlashTokenHeld(id, k) ==
    \E j \in FlashAt("recv", id) :
        j < k /\ \A m \in FlashCollected(id) : ~(j < m /\ m < k)

\* between positions p and k the acknowledgement arrived and a wait on the
\* token returned with it
FlashAckedBetween(p, k) ==
    \E r \in FlashAt("reply", "kAck"), w \in FlashCollected("kAck") :
        p < r /\ r < w /\ w < k

(* C15: a command is sent only while the token of its reply is registered;
   the download command is sent only after a ping reply was received and the
   wait on the ping token returned with it; a data chunk is sent only after the
   acknowledgement of the previous download or chunk was received and waited
   for; at most one acknowledgement token is outstanding. *)
C15_HandshakeOrder ==
    /\ \A k \in FlashSends : FlashTokenHeld(FlashReplyOf(fl_log_[k].id), k)
    /\ \A k \in FlashAt("send", "kDownload") :
           /\ \E r \in FlashAt("reply", "kPing") : r < k
           /\ \E w \in FlashCollected("kPing") : w < k
           /\ \A j \in FlashAt("send", "kPing") : j < k
    /\ \A k \in FlashAt("send", "kSendData") :
           /\ \E p \in FlashAckedSends : p < k
           /\ \A p \in FlashAckedSends : p < k =>
                  \E q \in FlashAckedSends : p <= q /\ q < k /\ FlashAckedBetween(q, k)
    /\ Cardinality(FlashAt("recv", "kAck")) - Cardinality(FlashCollected("kAck")) \in {0, 1}
    /\ (Cardinality(FlashAt("recv", "kAck")) - Cardinality(FlashCollected("kAck")) = 1)
           <=> (fl_tokens_["kAck"] # "none")

\* the first wait on the ping token timed out, and three chunks were flashed
C15_Witness ==
    /\ fl_pc_ = "return 0"
    /\ FlashSent("kPing") = 2
    /\ FlashSent("kDownload") = 1
    /\ FlashSent("kSendData") = 3
    /\ \E w \in FlashAt("wait", "kPing") : fl_log_[w].data = "timeout"

-----------------------------------------------------------------------------
(* Claims on the firmware chunks *)

\* the payloads passed to send_data, in the order sent
RECURSIVE FlashChunks(_)
FlashChunks(log) ==
    IF log = <<>> THEN <<>>
    ELSE IF Head(log).ev = "send" /\ Head(log).id = "kSendData"
         THEN <<Head(log).data>> \o FlashChunks(Tail(log))
         ELSE FlashChunks(Tail(log))

\* the sequences of a sequence, one after the other
RECURSIVE FlashConcat(_)
FlashConcat(seqs) ==
    IF seqs = <<>> THEN <<>> ELSE Head(seqs) \o FlashConcat(Tail(seqs))

(* C16: the chunks passed to send_data, one after the other, are the bytes of
   the image in order, the whole image once main has completed; every chunk
   has 1 to 8 bytes, so that the assertion of send_data holds; every chunk but
   the last has 8 bytes; an empty image sends no chunk. *)
C16_FirmwareChunking ==
    LET chunks == FlashChunks(fl_log_)
        bytes  == FlashConcat(chunks)
    IN  /\ Len(bytes) <= Len(fl_fw_)
        /\ bytes = SubSeq(fl_fw_, 1, Len(bytes))
        /\ \A c \in 1 .. Len(chunks) : 1 <= Len(chunks[c]) /\ Len(chunks[c]) <= 8
        /\ \A c \in 1 .. Len(chunks) - 1 : Len(chunks[c]) = 8
        /\ fl_pc_ = "return 0" => bytes = fl_fw_
        /\ fl_fw_ = <<>> => chunks = <<>>
        /\ fl_pc_ # "assert failed"

\* an image of 17 bytes went out as chunks of 8, 8 and 1 bytes
C16_Witness ==
    /\ fl_pc_ = "return 0"
    /\ Len(fl_fw_) = 2 * kChunkSize + 1
    /\ Len(FlashChunks(fl_log_)) = 3
    /\ Len(FlashChunks(fl_log_)[3]) = 1
    /\ FlashConcat(FlashChunks(fl_log_)) = fl_fw_

-----------------------------------------------------------------------------
(* Claims on the initial fusion state *)

(* C17: when construction is over and no encoder callback has run,
   odom_state_ is kNone; the first callback, whichever side it is for, only
   records its side: it triggers no fusion and no warning of a dropped
   message. *)
C17_InitialStateNone ==
    /\ odom_hist_.n = 0 => odom_state_ = "kNone"
    /\ odom_hist_.n = 1 =>
          /\ odom_hist_.did = "set"
          /\ odom_state_ = odom_hist_.side
          /\ odom_signal_.calls = 0
          /\ cerr_ = 0

-----------------------------------------------------------------------------
(* Claims on the direction of turns *)

(* C18: drive(v, omega) commands the right wheel faster than the left for
   omega > 0 (v_right - v_left = 2 * robot_radius_ * omega). In a fusion the
   heading change added to theta_ and the angular velocity handed to the
   observer follow the same convention: each has the sign of right minus
   left, of the revolutions fused and of the wheel velocities. *)
C18_TurnSignsAgree ==
    odom_hist_.did = "fuse" =>
        /\ sgn(fusion_.radians) = sgn(fusion_.revs_right - fusion_.revs_left)
        /\ sgn(odom_signal_.last[5]) = sgn(velocity_right_ - velocity_left_)

-----------------------------------------------------------------------------
(* Claims on the revolutions fused *)

(* C19: while the callbacks come from the left and the right side in turn,
   the revolutions fused telescope: after each fusion the sum of revs_left
   over all fusions is the latest left sample (the first one being taken from
   0), and the sum of revs_right the latest right sample. *)
C19_RevolutionsTelescope ==
    (odom_hist_.alt /\ odom_hist_.did = "fuse") =>
        /\ odom_hist_.sum_left = s16p16_to_double(odom_curr_left_)
        /\ odom_hist_.sum_right = s16p16_to_double(odom_curr_right_)

\* a second fusion under alternation, both wheels having moved in the first
\* period and again in the second
C19_Witness ==
    /\ odom_hist_.alt
    /\ odom_hist_.did = "fuse"
    /\ odom_hist_.n = 4
    /\ odom_signal_.calls = 2
    /\ fusion_.revs_left # 0 /\ fusion_.revs_right # 0
    /\ odom_hist_.sum_left # fusion_.revs_left
    /\ odom_hist_.sum_right # fusion_.revs_right

-----------------------------------------------------------------------------
(* Claims on the approach to the target speed *)

\* the step is a tick of drive_spin
RampSpinStep == ramp_hist_'.n = ramp_hist_.n + 1 /\ ramp_hist_'.did = "spin"

\* the step is a call of drive or drive_raw
RampDriveStep == ramp_hist_'.n = ramp_hist_.n + 1 /\ ramp_hist_'.did = "drive"

\* one wheel over a tick: nearer to the target or as near, never beyond it,
\* and staying on it once there
RampWheelApproaches(current_rpm, target_rpm, next_rpm) ==
    /\ Abs(target_rpm - next_rpm) <= Abs(target_rpm - current_rpm)
    /\ sgn(target_rpm - next_rpm) \in {sgn(target_rpm - current_rpm), 0}
    /\ current_rpm = target_rpm => next_rpm = target_rpm

(* C20: every tick of drive_spin, for dt >= 0 and accel_max >= 0, moves each
   wheel's commanded speed toward its target without passing it, and leaves
   it on the target once there; drive and drive_raw change the targets only:
   the commanded speeds, the setpoints sent and the pose stay as they are. *)
C20_RampNeverOvershoots ==
    /\ [][RampSpinStep =>
             /\ RampWheelApproaches(current_rpm_left_, target_rpm_left_, current_rpm_left_')
             /\ RampWheelApproaches(current_rpm_right_, target_rpm_right_,
                                    current_rpm_right_')
             /\ target_rpm_left_' = target_rpm_left_
             /\ target_rpm_right_' = target_rpm_right_]_vars
    /\ [][RampDriveStep =>
             /\ current_rpm_left_' = current_rpm_left_
             /\ current_rpm_right_' = current_rpm_right_
             /\ speed_set_' = speed_set_
             /\ <<x_, y_, theta_>>' = <<x_, y_, theta_>>]_vars

\* two ticks have brought the left wheel nearer to its target, not yet onto
\* it, while the right wheel sits on a target it had reached
C20_Witness ==
    /\ ramp_hist_.did = "spin"
    /\ ramp_hist_.ticks >= 2
    /\ ramp_hist_.spent > 0
    /\ Abs(target_rpm_left_ - current_rpm_left_) > 0
    /\ Abs(target_rpm_left_ - current_rpm_left_) < Abs(ramp_hist_.res0_left)
    /\ ramp_hist_.res0_right = 0
    /\ current_rpm_right_ = target_rpm_right_

=============================================================================
